---------------------------- MODULE Spec2Model ----------------------------
(***************************************************************************)
(* Verification model of vi-normflows: the amortized planar-flow           *)
(* optimizer (normflows/optimization.py), the basic-flow optimizer          *)
(* (src/learning_basic_flow.py) and the MNIST encode/decode glue            *)
(* (src/learning_mnist.py).                                                 *)
(*                                                                         *)
(* Arrays are functions over 0-based index ranges, as in numpy.  Reals are  *)
(* integers: every numpy transcendental is rounded to the nearest integer.  *)
(***************************************************************************)
EXTENDS Integers, Sequences, FiniteSets, TLC

VARIABLES
    \* ---- learning_mnist.py: make_unpack_params.encode / decode
    epc,        \* "start" -> "encoded" -> "decoded"
    eD, eK, eN, \* dim_z, K and N = X.shape[0] of the call
    eX,         \* the data rows, X[n]
    enc,        \* what encode returned: [mu0, lsd, W, U, b]
    dec         \* what decode returned: logits[n][j]

encVars == <<epc, eD, eK, eN, eX, enc, dec>>

VARIABLES
    \* ---- optimization.py: one evaluation of optimize.F
    fpc,        \* "start" -> "done"
    fD, fK, fN, \* D, K and the number of rows of X (= N)
    fX,         \* the data rows
    fPos,       \* position of the noise generator the batch z0 is drawn at
    fPhi,       \* phi, the recognition weights handed to encode
    fTheta,     \* theta, the generative weights handed to decode
    fOut        \* what F returned: [value, zk, running_sum, deltas, zin]

fVars == <<fpc, fD, fK, fN, fX, fPos, fPhi, fTheta, fOut>>

VARIABLES
    \* ---- optimization.py: optimize, and the adam loop it runs
    pc,         \* "gradient" -> "callback" -> "update" -> ... -> "return" -> "done",
                \* or "aborted" when an exception leaves optimize
    run,        \* 1 for the first invocation, 2 for the second one
    fresh,      \* the second invocation was made in a process of its own
    rs,         \* the module's generator: the number of batches drawn from it
    max_iter, verbose, rows, init_params,   \* the arguments (rows = X.shape[0] = N)
    adam_x, adam_m, adam_v,  \* adam: the parameter vector and the two moment estimates
    adam_i,     \* adam: the iteration index
    adam_g,     \* adam: the gradient of the iteration
    pbar,       \* the progress bar's count
    traj,       \* the parameter vectors so far: init_params, then one per update
    gradLog,    \* one record per gradient adam computed: [pos, g], pos the generator
                \* position its batch was drawn at
    cbLog,      \* one record per callback invocation
    result,     \* what optimize returned
    prev        \* the first invocation, once over: [traj, result, pc, gradLog]

optVars == <<pc, run, fresh, rs, max_iter, verbose, rows, init_params,
             adam_x, adam_m, adam_v, adam_i, adam_g,
             pbar, traj, gradLog, cbLog, result, prev>>

VARIABLES
    \* ---- learning_basic_flow.py: optimize
    bpc,        \* "gradient" -> "callback" -> "update" -> ... -> "done", or "aborted"
    dim_z, num_layers, num_samples, b_max_iter,   \* the arguments (num_layers is K)
    b_rs,       \* that module's generator: the number of batches drawn from it
    b_x, b_m, b_v,  \* adam: the parameter vector and the two moment estimates
    b_i,        \* adam: the iteration index
    b_g,        \* adam: the gradient of the iteration
    b_eval,     \* the last evaluation of variational_objective at adam's point:
                \* [unpacked, free_energy, objective]
    b_updates,  \* the number of parameter updates made
    b_result    \* what optimize returned

basicVars == <<bpc, dim_z, num_layers, num_samples, b_max_iter, b_rs, b_x, b_m, b_v,
               b_i, b_g, b_eval, b_updates, b_result>>

vars == <<encVars, fVars, optVars, basicVars>>

\* The parts of the state a specification does not use stay as they are here.
EncIdle ==
    /\ epc = "idle" /\ eD = 0 /\ eK = 0 /\ eN = 0 /\ eX = <<>>
    /\ enc = <<>> /\ dec = <<>>

FIdle ==
    /\ fpc = "idle" /\ fD = 0 /\ fK = 0 /\ fN = 0 /\ fX = <<>> /\ fPos = 0
    /\ fPhi = <<>> /\ fTheta = 0 /\ fOut = <<>>

OptIdle ==
    /\ pc = "idle" /\ run = 0 /\ fresh = FALSE /\ rs = 0 /\ max_iter = 0
    /\ verbose = FALSE /\ rows = 0 /\ init_params = <<>>
    /\ adam_x = <<>> /\ adam_m = <<>> /\ adam_v = <<>> /\ adam_i = 0 /\ adam_g = <<>>
    /\ pbar = 0 /\ traj = <<>> /\ gradLog = <<>> /\ cbLog = <<>> /\ result = <<>>
    /\ prev = <<>>

BasicIdle ==
    /\ bpc = "idle" /\ dim_z = 0 /\ num_layers = 0 /\ num_samples = 0 /\ b_max_iter = 0
    /\ b_rs = 0 /\ b_x = <<>> /\ b_m = <<>> /\ b_v = <<>> /\ b_i = 0 /\ b_g = <<>>
    /\ b_eval = <<>> /\ b_updates = 0 /\ b_result = <<>>

--------------------------------------------------------------------------
(* Index ranges and numpy's C-order reshape. *)

Rng(n) == 0 .. (n - 1)

\* An array held by value (its entries computed once, when it is built).
Arr(f) == f @@ <<>>

\* Element f (C order) of a 2-d array a with ncols columns: a.flat[f].
Flat2(a, ncols, f) == a[f \div ncols][f % ncols]

--------------------------------------------------------------------------
(* learning_mnist.py *)

EncMaxD == 3
EncMaxK == 2
EncMaxN == 3

\* 'output_dim': 2 * dim_z + 2 * dim_z * K + 1 * K
output_dim(D, K) == 2 * D + 2 * D * K + 1 * K

\* encoder.forward(weights.reshape(1, -1), X.T)[0]: an (output_dim, N) array
\* whose column n is computed from X[n] alone.  Each entry carries the output
\* row and the data row it was computed from, and that data row's value.
encoder_forward(D, K, N, X) ==
    [r \in Rng(output_dim(D, K)) |->
        [n \in Rng(N) |-> [row |-> r, col |-> n, x |-> X[n]]]]

\* phi[lo:hi], rows lo .. hi-1 of phi re-indexed from 0.
RowSlice(phi, lo, hi) == [r \in Rng(hi - lo) |-> phi[lo + r]]

\* a.reshape(N, D) of an array a with ncols columns.
Reshape2(a, ncols, N, D) ==
    [n \in Rng(N) |-> [d \in Rng(D) |-> Flat2(a, ncols, n * D + d)]]

\* a.reshape(K, N, D) of an array a with ncols columns.
Reshape3(a, ncols, K, N, D) ==
    [k \in Rng(K) |-> [n \in Rng(N) |-> [d \in Rng(D) |->
        Flat2(a, ncols, k * N * D + n * D + d)]]]

encode(D, K, X, N) ==
    LET phi == encoder_forward(D, K, N, X)
        R   == output_dim(D, K)
    IN  [mu0 |-> Reshape2(RowSlice(phi, 0, D), N, N, D),
         lsd |-> Reshape2(RowSlice(phi, D, 2 * D), N, N, D),
         W   |-> Reshape3(RowSlice(phi, 2 * D, 2 * D + K * D), N, K, N, D),
         U   |-> Reshape3(RowSlice(phi, 2 * D + K * D, 2 * D + 2 * K * D), N, K, N, D),
         b   |-> Reshape2(RowSlice(phi, R - K, R), N, K, N)]

\* decoder.forward(weights.reshape(1, -1), Z.T)[0]: an (output_dim, N) array,
\* column n computed from Z[n]; decode returns its transpose.
DecOutDim == 2

decoder_forward(N) ==
    [j \in Rng(DecOutDim) |-> [n \in Rng(N) |-> [row |-> j, col |-> n]]]

decode(N) ==
    LET logits == decoder_forward(N)
    IN  [n \in Rng(N) |-> [j \in Rng(DecOutDim) |-> logits[j][n]]]

EncInit ==
    /\ epc = "start"
    /\ eD \in 1 .. EncMaxD
    /\ eK \in 1 .. EncMaxK
    /\ eN \in 1 .. EncMaxN
    /\ eX \in [Rng(eN) -> {0, 1}]
    /\ enc = <<>>
    /\ dec = <<>>

Encode ==
    /\ epc = "start"
    /\ enc' = encode(eD, eK, eX, eN)
    /\ epc' = "encoded"
    /\ UNCHANGED <<eD, eK, eN, eX, dec>>

Decode ==
    /\ epc = "encoded"
    /\ dec' = decode(eN)
    /\ epc' = "decoded"
    /\ UNCHANGED <<eD, eK, eN, eX, enc>>

EncNext == Encode \/ Decode

InitEnc == EncInit /\ FIdle /\ OptIdle /\ BasicIdle

NextEnc == EncNext /\ UNCHANGED <<fVars, optVars, basicVars>>

SpecEnc == InitEnc /\ [][NextEnc]_vars

\* C10: after encode, every per-sample parameter of sample n comes from column
\* n of the encoder output, and dimension d of mu0 / log_sigma_diag0 / W[k] /
\* U[k] from the output row of that dimension.
EncodeKeepsSamplesSeparate ==
    epc # "start" =>
        \A n \in Rng(eN) :
            /\ \A d \in Rng(eD) :
                /\ enc.mu0[n][d].col = n /\ enc.mu0[n][d].row = d
                /\ enc.lsd[n][d].col = n /\ enc.lsd[n][d].row = eD + d
                /\ \A k \in Rng(eK) :
                    /\ enc.W[k][n][d].col = n
                    /\ enc.W[k][n][d].row = 2 * eD + k * eD + d
                    /\ enc.U[k][n][d].col = n
                    /\ enc.U[k][n][d].row = 2 * eD + eK * eD + k * eD + d
            /\ \A k \in Rng(eK) : enc.b[k][n].col = n


--------------------------------------------------------------------------
(* numpy, rounded to integers. *)

\* sum of f over the index range lo .. hi-1
RECURSIVE SumIn(_, _, _)
SumIn(f, lo, hi) ==
    IF hi <= lo THEN 0
    ELSE IF hi = lo + 1 THEN f[lo]
    ELSE LET mid == (lo + hi) \div 2 IN SumIn(f, lo, mid) + SumIn(f, mid, hi)

\* np.sum of a 1-d array
Sum(f) == SumIn(f, 0, Cardinality(DOMAIN f))

\* np.mean of a 1-d array (the quotient rounded down)
Mean(f) == Sum(f) \div Cardinality(DOMAIN f)

Abs(x) == IF x < 0 THEN -x ELSE x

\* np.tanh: tanh(0) = 0, |tanh(x)| >= 0.76 for |x| >= 1
Tanh(x) == IF x > 0 THEN 1 ELSE IF x < 0 THEN -1 ELSE 0

\* np.exp: e^-1 = 0.37, e^1 = 2.72, e^2 = 7.39, e^3 = 20.09, e^4 = 54.6,
\* e^5 = 148.4, e^6 = 403.4, e^7 = 1096.6
Exp(x) ==
    CASE x <= -1 -> 0
      [] x = 0   -> 1
      [] x = 1   -> 3
      [] x = 2   -> 7
      [] x = 3   -> 20
      [] x = 4   -> 55
      [] x = 5   -> 148
      [] x = 6   -> 403
      [] OTHER   -> 1097

\* the integer part of the square root of n
RECURSIVE ISqrtIn(_, _, _)
ISqrtIn(n, lo, hi) ==
    IF lo >= hi THEN lo
    ELSE LET mid == (lo + hi + 1) \div 2
         IN  IF mid * mid <= n THEN ISqrtIn(n, mid, hi) ELSE ISqrtIn(n, lo, mid - 1)

ISqrt(n) == ISqrtIn(n, 0, 46340)

\* np.sqrt: the integer nearest to the square root
Sqrt(x) == LET r == ISqrt(x) IN IF x - r * r > r THEN r + 1 ELSE r

\* eps = 1e-7 is the unit the argument of np.log is counted in: 1.0 is EpsInv
EpsInv == 10000000

\* 1e7 * e^(j + 1/2) for j = -17 .. 4: ln(x * 1e-7) rounds to j + 1 from there on
LnThresholds ==
    <<1, 2, 5, 14, 37, 101, 275, 749, 2035, 5531, 15034, 40868, 111090,
      301974, 820850, 2231302, 6065307, 16487213, 44816891, 121824940,
      331154520, 900171313>>

\* np.log of x * 1e-7, for x >= 1
Ln(x) == Cardinality({j \in DOMAIN LnThresholds : LnThresholds[j] <= x}) - 17

\* np.log(2 * np.pi) = 1.84
Log2Pi == 2

\* rs = npr.RandomState(0): the first 25 draws of rs.randn, rounded
\* (1.76, 0.40, 0.98, 2.24, 1.87, -0.98, 0.95, -0.15, -0.10, 0.41, 0.14, 1.45,
\*  0.76, 0.12, 0.44, 0.33, 1.49, -0.21, 0.31, -0.85, -2.55, 0.65, 0.86, -0.74,
\*  2.27); the stream is continued periodically.
RandnStream ==
    <<2, 0, 1, 2, 2, -1, 1, 0, 0, 0, 0, 1, 1, 0, 0, 0, 1, 0, 0, -1, -3, 1, 1, -1, 2>>

Randn(i) == RandnStream[(i % Len(RandnStream)) + 1]

\* rs.randn(N, D) with the generator at scalar position pos
randn(pos, N, D) == [n \in Rng(N) |-> [d \in Rng(D) |-> Randn(pos + n * D + d)]]

--------------------------------------------------------------------------
(* The callables handed to optimize: encode, decode, logp.  A one-weight-  *)
(* per-output encoder and decoder, and a Gaussian prior plus a squared-     *)
(* error data term.                                                         *)

\* phi = [mu, log_sigma, w (K x D), u (K x D), b (K)], one weight per output
PhiLen(D, K) == 2 + 2 * K * D + K

encodeArg(phi, X, N, D, K) ==
    [mu0 |-> [n \in Rng(N) |-> [d \in Rng(D) |-> phi[0] + X[n]]],
     lsd |-> [n \in Rng(N) |-> [d \in Rng(D) |-> phi[1]]],
     W   |-> [k \in Rng(K) |-> [n \in Rng(N) |-> [d \in Rng(D) |-> phi[2 + k * D + d]]]],
     U   |-> [k \in Rng(K) |-> [n \in Rng(N) |-> [d \in Rng(D) |-> phi[2 + K * D + k * D + d]]]],
     B   |-> [k \in Rng(K) |-> [n \in Rng(N) |-> phi[2 + 2 * K * D + k] - X[n]]]]

\* logits[n] = theta + sum_d (d + 1) * Z[n][d]
decodeArg(theta, Z, N, D) ==
    [n \in Rng(N) |-> theta + Sum([d \in Rng(D) |-> (d + 1) * Z[n][d]])]

\* log p(x, z) per sample: -D/2 log(2 pi) - 1/2 sum_d z^2 - (x - logits)^2
logpArg(X, Z, logits, N, D) ==
    [n \in Rng(N) |->
        (0 - D * Log2Pi) \div 2
        - Sum([d \in Rng(D) |-> Z[n][d] * Z[n][d]]) \div 2
        - (X[n] - logits[n]) * (X[n] - logits[n])]

\* flows.planar_flow: z + u * tanh(z . w + b), per sample
planar_flow(z, w, u, b, N, D) ==
    Arr([n \in Rng(N) |-> Arr([d \in Rng(D) |->
        z[n][d] + u[n][d] * Tanh(Sum([e \in Rng(D) |-> z[n][e] * w[n][e]]) + b[n])])])

--------------------------------------------------------------------------
(* optimization.py: optimize.F and what it closes over. *)

\* logq0: -D / 2 * np.log(2 * np.pi) - 0.5 * np.sum(z ** 2, axis=0)
logq0(z, N, D) ==
    [d \in Rng(D) |->
        (0 - D * Log2Pi) \div 2 - Sum([n \in Rng(N) |-> z[n][d] * z[n][d]]) \div 2]

hprime(x) == 1 - Tanh(x) * Tanh(x)

\* logdet_jac: np.sum(w * hprime(np.sum(w * z, axis=1) + b).reshape(-1, 1), axis=1)
logdet_jac(w, z, b, N, D) ==
    Arr([n \in Rng(N) |->
        Sum([d \in Rng(D) |->
            w[n][d] * hprime(Sum([e \in Rng(D) |-> w[n][e] * z[n][e]]) + b[n])])])

\* np.log(eps + np.abs(1. + np.sum(u * ldj.reshape(-1, 1), axis=1))): the
\* argument of the logarithm, in units of eps
LogArg(u, ldj, N, D) ==
    Arr([n \in Rng(N) |-> 1 + EpsInv * Abs(1 + Sum([d \in Rng(D) |-> u[n][d] * ldj[n]]))])

\* The loop body with the two statements in the other order: the layer is
\* applied first, and the determinant term is taken on its output.
LoopBodyFlowFirst(k, st, e, N, D) ==
    LET w == e.W[k]
        u == e.U[k]
        b == e.B[k]
        zout == planar_flow(st.zk, w, u, b, N, D)
        ldj == logdet_jac(w, zout, b, N, D)
        arg == LogArg(u, ldj, N, D)
        delta == [n \in Rng(N) |-> Ln(arg[n])]
    IN  [zk          |-> zout,
         running_sum |-> Arr([n \in Rng(N) |-> st.running_sum[n] + delta[n]]),
         args        |-> Append(st.args, arg),
         zin         |-> Append(st.zin, st.zk)]

\* One pass of the body of `for k in range(K)`: the state of the loop is zk,
\* running_sum, and (for the record) each layer's input and delta.
LoopBody(k, st, e, N, D) ==
    LET w == e.W[k]
        u == e.U[k]
        b == e.B[k]
        ldj == logdet_jac(w, st.zk, b, N, D)
        arg == LogArg(u, ldj, N, D)
        delta == [n \in Rng(N) |-> Ln(arg[n])]
    IN  [zk          |-> planar_flow(st.zk, w, u, b, N, D),
         running_sum |-> Arr([n \in Rng(N) |-> st.running_sum[n] + delta[n]]),
         args        |-> Append(st.args, arg),
         zin         |-> Append(st.zin, st.zk)]

RECURSIVE Loop(_, _, _, _, _, _)
Loop(k, K, st, e, N, D) ==
    IF k >= K THEN st ELSE Loop(k + 1, K, LoopBody(k, st, e, N, D), e, N, D)

F(z0, phi, theta, t, X, N, D, K) ==
    LET e == encodeArg(phi, X, N, D, K)
        sd == [n \in Rng(N) |-> [d \in Rng(D) |-> Sqrt(Exp(e.lsd[n][d]))]]
        zk0 == Arr([n \in Rng(N) |-> Arr([d \in Rng(D) |-> z0[n][d] * sd[n][d] + e.mu0[n][d]])])
        first == Mean(logq0(z0, N, D))
        st == Loop(0, K, [zk |-> zk0, running_sum |-> Arr([n \in Rng(N) |-> 0]),
                          args |-> <<>>, zin |-> <<>>], e, N, D)
        third == Mean(st.running_sum)
        logits == decodeArg(theta, st.zk, N, D)
        second == Mean(logpArg(X, st.zk, logits, N, D))
    IN  [value |-> first - second - third, zk |-> st.zk,
         running_sum |-> st.running_sum, args |-> st.args, zin |-> st.zin]

--------------------------------------------------------------------------
(* One evaluation of F, on inputs drawn from bounded sets. *)

MaxD == 2
MaxK == 2
MaxN == 2
MaxPos == 1

\* The (w, u, b) of one layer: aligned (u.w = D), opposed (u.w = -D), crossed
\* (w along the first axis, u along the last: u.w = 0 when D >= 2), and
\* shifted (aligned, with a bias of -1).
Kinds == {"aligned", "opposed", "crossed", "shifted"}

wOf(kind, d, D) == IF kind = "crossed" /\ d # 0 THEN 0 ELSE 1

uOf(kind, d, D) ==
    CASE kind = "opposed" -> -1
      [] kind = "crossed" -> IF d = D - 1 THEN 1 ELSE 0
      [] OTHER -> 1

bOf(kind) == IF kind = "shifted" THEN -1 ELSE 0

\* the flat recognition-weight vector for these choices
MkPhi(mu, ls, kind, D, K) ==
    Arr([i \in Rng(PhiLen(D, K)) |->
        IF i = 0 THEN mu
        ELSE IF i = 1 THEN ls
        ELSE IF i < 2 + K * D THEN wOf(kind[(i - 2) \div D], (i - 2) % D, D)
        ELSE IF i < 2 + 2 * K * D
             THEN uOf(kind[(i - 2 - K * D) \div D], (i - 2 - K * D) % D, D)
        ELSE bOf(kind[i - 2 - 2 * K * D])])

\* (mu, log_sigma) is (0, 0), a unit base sample, or (1, 2), shifted and scaled
PhiSet(D, K) ==
    {MkPhi(c[1], c[2], kind, D, K) :
        c \in {<<0, 0>>, <<1, 2>>}, kind \in [Rng(K) -> Kinds]}

\* binarized data: all rows 0, or rows alternating 1, 0, 1, ...
XSet(N) == {[n \in Rng(N) |-> 0], [n \in Rng(N) |-> (n + 1) % 2]}

FInit ==
    /\ fpc = "start"
    /\ fD \in 1 .. MaxD
    /\ fK \in 0 .. MaxK
    /\ fN \in 1 .. MaxN
    /\ fX \in XSet(fN)
    /\ fPos \in 0 .. MaxPos
    /\ fPhi \in PhiSet(fD, fK)
    /\ fTheta \in {0, 1}
    /\ fOut = <<>>

EvalF ==
    /\ fpc = "start"
    /\ fOut' = F(randn(fPos * fN * fD, fN, fD), fPhi, fTheta, 0, fX, fN, fD, fK)
    /\ fpc' = "done"
    /\ UNCHANGED <<fD, fK, fN, fX, fPos, fPhi, fTheta>>

FNext == EvalF

InitF == FInit /\ EncIdle /\ OptIdle /\ BasicIdle

NextF == FNext /\ UNCHANGED <<encVars, optVars, basicVars>>

SpecF == InitF /\ [][NextF]_vars

\* ---- what the free energy is, stated independently of the loop

fEnc == encodeArg(fPhi, fX, fN, fD, fK)

fZ0 == randn(fPos * fN * fD, fN, fD)

\* the base sample z0 * sd + mu0
BaseSample ==
    Arr([n \in Rng(fN) |-> Arr([d \in Rng(fD) |->
        fZ0[n][d] * Sqrt(Exp(fEnc.lsd[n][d])) + fEnc.mu0[n][d]])])

\* the batch entering layer k: layers 0 .. k-1 applied, in that order, once each
RECURSIVE ZAt(_)
ZAt(k) ==
    IF k = 0 THEN BaseSample
    ELSE planar_flow(ZAt(k - 1), fEnc.W[k - 1], fEnc.U[k - 1], fEnc.B[k - 1], fN, fD)

\* logdet_k of sample n, evaluated on the input of layer k
LogDetAt(k, n) ==
    Ln(LogArg(fEnc.U[k], logdet_jac(fEnc.W[k], ZAt(k), fEnc.B[k], fN, fD), fN, fD)[n])

RefFreeEnergy ==
    Mean(logq0(fZ0, fN, fD))
    - Mean(logpArg(fX, ZAt(fK), decodeArg(fTheta, ZAt(fK), fN, fD), fN, fD))
    - Mean([n \in Rng(fN) |-> Sum([k \in Rng(fK) |-> LogDetAt(k, n)])])

\* C1: F returns mean(logq0(z0)) - mean(logp(X, zK, decode(theta, zK)))
\* - mean(sum_k logdet_k), zK being the base sample z0 * sd + mu0 passed through
\* layers 0 .. K-1 in index order, once each, and logdet_k taken on the input
\* of layer k.
FIsFreeEnergy ==
    fpc = "done" =>
        /\ fOut.value = RefFreeEnergy
        /\ fOut.zk = ZAt(fK)
        /\ Len(fOut.zin) = fK
        /\ \A k \in Rng(fK) : fOut.zin[k + 1] = ZAt(k)

\* C1 witness: two layers ran, both with a non-trivial determinant term, and
\* the second layer saw a batch the first one had moved.
FIsFreeEnergyWitness ==
    /\ fpc = "done" /\ fK = 2 /\ fN = 2 /\ fD = 2
    /\ ZAt(1) # ZAt(0) /\ ZAt(2) # ZAt(1)
    /\ \E n \in Rng(fN) : fOut.args[1][n] # EpsInv + 1
    /\ \E n \in Rng(fN) : fOut.args[2][n] # EpsInv + 1
    /\ fOut.value = RefFreeEnergy

\* psi = h'(z.w + b) * w of sample n at layer k, a D-vector
Psi(k, n) ==
    [d \in Rng(fD) |->
        hprime(Sum([e \in Rng(fD) |-> ZAt(k)[n][e] * fEnc.W[k][n][e]]) + fEnc.B[k][n])
        * fEnc.W[k][n][d]]

\* C2: the argument of every accumulated logarithm is eps + |1 + u.psi|, u.psi
\* the dot product of the D-vectors u and psi, hence at least eps.
LogDetIsPlanar ==
    fpc = "done" =>
        \A k \in Rng(fK) : \A n \in Rng(fN) :
            /\ fOut.args[k + 1][n] =
                   1 + EpsInv * Abs(1 + Sum([d \in Rng(fD) |-> fEnc.U[k][n][d] * Psi(k, n)[d]]))
            /\ fOut.args[k + 1][n] >= 1

--------------------------------------------------------------------------
(* optimization.py: gradient_create, optimize; autograd's adam. *)

\* the optimizer runs with D = 1 and K = 1: five recognition weights, one
\* generative weight
OptD == 1
OptK == 1

\* learning_mnist.py unpack_params: phi = params[:encoder.D], theta = params[encoder.D:]
unpack_params(params) ==
    [phi   |-> [j \in Rng(PhiLen(OptD, OptK)) |-> params[j]],
     theta |-> params[PhiLen(OptD, OptK)]]

\* X: rows alternating 1, 0, 1, ...
OptX(N) == Arr([n \in Rng(N) |-> (n + 1) % 2])

\* variational_objective drawing its noise from a generator that is not the
\* seeded one: what it gives depends on the invocation.
variational_objective_unseeded(params, t, pos, N) ==
    LET up == unpack_params(params)
        z0 == randn((pos + run) * N * OptD, N, OptD)
    IN  F(z0, up.phi, up.theta, t, OptX(N), N, OptD, OptK).value

\* variational_objective(params, t), the generator having given `pos` batches
variational_objective(params, t, pos, N) ==
    LET up == unpack_params(params)
        z0 == randn(pos * N * OptD, N, OptD)
        free_energy == F(z0, up.phi, up.theta, t, OptX(N), N, OptD, OptK).value
    IN  free_energy

\* grad(variational_objective): the central difference in each coordinate
gradient(params, t, pos, N) ==
    Arr([j \in DOMAIN params |->
        (variational_objective([params EXCEPT ![j] = @ + 1], t, pos, N)
         - variational_objective([params EXCEPT ![j] = @ - 1], t, pos, N)) \div 2])

\* the quotient a / b, b > 0, rounded to the nearest integer
RoundDiv(a, b) == IF a >= 0 THEN (2 * a + b) \div (2 * b) ELSE 0 - ((2 * (0 - a) + b) \div (2 * b))

\* 1000 * b1 ** (i + 1) and 1000 * b2 ** (i + 1), b1 = 0.9, b2 = 0.999
RECURSIVE B1Pow(_)
B1Pow(it) == IF it = 0 THEN 900 ELSE (9 * B1Pow(it - 1)) \div 10

RECURSIVE B2Pow(_)
B2Pow(it) == IF it = 0 THEN 999 ELSE (999 * B2Pow(it - 1)) \div 1000

\* adam's moment updates, one coordinate; m and v are kept in thousandths
\*   m = (1 - b1) * g + b1 * m;  v = (1 - b2) * (g**2) + b2 * v
AdamM1(m1, g1) == 100 * g1 + RoundDiv(9 * m1, 10)

AdamV1(v1, g1) == g1 * g1 + (999 * v1) \div 1000

\* x = x - step_size * mhat / (np.sqrt(vhat) + eps), one coordinate, with
\*   mhat = m / (1 - b1**(i + 1)), vhat = v / (1 - b2**(i + 1))
AdamX1(x1, m1, v1, it, step_size) ==
    LET mhat == RoundDiv(m1 * 1000, 1000 - B1Pow(it))    \* thousandths
        vhat == (v1 * 1000) \div (1000 - B2Pow(it))      \* thousandths
        sq   == ISqrt(vhat \div 10)                      \* tenths
    IN  IF sq = 0 THEN x1 ELSE x1 - RoundDiv(step_size * mhat, 100 * sq)

AdamM(mm, gg) == Arr([j \in DOMAIN mm |-> AdamM1(mm[j], gg[j])])

AdamV(vv, gg) == Arr([j \in DOMAIN vv |-> AdamV1(vv[j], gg[j])])

AdamX(xx, mm, vv, it, step_size) ==
    Arr([j \in DOMAIN xx |-> AdamX1(xx[j], mm[j], vv[j], it, step_size)])

--------------------------------------------------------------------------
(* optimize, run twice. *)

MaxIter == 3

\* rs = npr.RandomState(0), when the module is loaded: nothing drawn yet
RandomState0 == 0

\* `Xtrue = X[101]` in the callback
ReconRow == 101

\* the diagnostics' periods: `t % 100 == 0` and `t % 200 == 0`
LogEvery == 100
ReconEvery == 200

\* adam's loop body with the callback after the update
AdamOrderCallbackLast == <<"gradient", "update", "callback">>

\* the body of adam's `for i in range(num_iters)`, in order:
\*   g = grad(x, i);  callback(x, i, g);  m, v, x = ...
AdamOrder == <<"gradient", "callback", "update">>

After(step) ==
    LET at == CHOOSE j \in DOMAIN AdamOrder : AdamOrder[j] = step
    IN  AdamOrder[(at % Len(AdamOrder)) + 1]

\* the iteration index once `step` is done: the last step ends the iteration
IndexAfter(step) == IF After(step) = AdamOrder[1] THEN adam_i + 1 ELSE adam_i

Zeros(params) == Arr([j \in DOMAIN params |-> 0])

\* init_params: every layer aligned or every layer opposed, theta 0 or 2
InitSet ==
    {Arr([j \in Rng(PhiLen(OptD, OptK) + 1) |->
        IF j < PhiLen(OptD, OptK)
        THEN MkPhi(0, 0, [k \in Rng(OptK) |-> kind], OptD, OptK)[j]
        ELSE th]) :
        kind \in {"aligned", "opposed"}, th \in {0, 2}}

\* optimize(...) is entered: a new progress bar, adam starts from init_params
Enter(params) ==
    /\ adam_x' = params
    /\ adam_m' = Zeros(params)
    /\ adam_v' = Zeros(params)
    /\ adam_i' = 0
    /\ adam_g' = Zeros(params)
    /\ pbar' = 0
    /\ traj' = <<params>>
    /\ gradLog' = <<>>
    /\ cbLog' = <<>>
    /\ result' = <<>>
    /\ pc' = AdamOrder[1]

OptInit ==
    /\ run = 1
    /\ fresh = FALSE
    /\ rs = RandomState0
    /\ max_iter \in 0 .. MaxIter
    /\ verbose \in BOOLEAN
    \* X has 2 rows, or (with the diagnostics on, which look at X[101]) 102
    /\ rows \in IF verbose THEN {2, ReconRow + 1} ELSE {2}
    /\ init_params \in InitSet
    /\ adam_x = init_params
    /\ adam_m = Zeros(init_params)
    /\ adam_v = Zeros(init_params)
    /\ adam_i = 0
    /\ adam_g = Zeros(init_params)
    /\ pbar = 0
    /\ traj = <<init_params>>
    /\ gradLog = <<>>
    /\ cbLog = <<>>
    /\ result = <<>>
    /\ prev = <<>>
    /\ pc = AdamOrder[1]

args == <<max_iter, verbose, rows, init_params>>

InLoop == adam_i < max_iter

\* g = grad(x, i): variational_objective draws one batch from rs
Gradient ==
    /\ pc = "gradient" /\ InLoop
    /\ adam_g' = gradient(adam_x, adam_i, rs, rows)
    /\ rs' = rs + 1
    /\ gradLog' = Append(gradLog, [pos |-> rs, g |-> adam_g'])
    /\ adam_i' = IndexAfter("gradient")
    /\ pc' = After("gradient")
    /\ UNCHANGED <<run, fresh, args, adam_x, adam_m, adam_v, pbar, traj, cbLog, result, prev>>

\* callback(params, t, g)
Callback ==
    /\ pc = "callback" /\ InLoop
    /\ pbar' = pbar + 1
    /\ LET logs   == verbose /\ adam_i % LogEvery = 0
           recon  == verbose /\ adam_i % ReconEvery = 0
           raises == recon /\ ~(ReconRow < rows)       \* X[101]: IndexError
       IN  \* gradient(params, t) and objective(params, t) each draw a batch
           /\ rs' = IF logs THEN rs + 2 ELSE rs
           /\ pc' = IF raises THEN "aborted" ELSE After("callback")
           /\ adam_i' = IF raises THEN adam_i ELSE IndexAfter("callback")
    /\ cbLog' = Append(cbLog, [params |-> adam_x, t |-> adam_i, g |-> adam_g,
                               m |-> adam_m, v |-> adam_v, updates |-> Len(traj) - 1])
    /\ UNCHANGED <<run, fresh, args, adam_x, adam_m, adam_v, adam_g, traj, gradLog,
                   result, prev>>

\* the moment estimates and the parameter vector are updated (step_size = 1)
Update ==
    /\ pc = "update" /\ InLoop
    /\ adam_m' = AdamM(adam_m, adam_g)
    /\ adam_v' = AdamV(adam_v, adam_g)
    /\ adam_x' = AdamX(adam_x, adam_m', adam_v', adam_i, 1)
    /\ traj' = Append(traj, adam_x')
    /\ adam_i' = IndexAfter("update")
    /\ pc' = After("update")
    /\ UNCHANGED <<run, fresh, rs, args, adam_g, pbar, gradLog, cbLog, result, prev>>

\* adam returns; pbar.close(); return unpack_params(variational_params)
Return ==
    /\ pc = AdamOrder[1] /\ ~InLoop
    /\ result' = unpack_params(adam_x)
    /\ pc' = "done"
    /\ UNCHANGED <<run, fresh, rs, args, adam_x, adam_m, adam_v, adam_i, adam_g, pbar,
                   traj, gradLog, cbLog, prev>>

Over == pc \in {"done", "aborted"}

\* optimize is called again with the same arguments, in the same process: the
\* module and its generator rs are the ones the first call used
CallAgain ==
    /\ Over /\ run = 1
    /\ prev' = [traj |-> traj, result |-> result, pc |-> pc, gradLog |-> gradLog]
    /\ run' = 2
    /\ fresh' = FALSE
    /\ rs' = rs
    /\ Enter(init_params)
    /\ UNCHANGED args

\* optimize is called with the same arguments in a new process: the module is
\* loaded again, and so `rs = npr.RandomState(0)` is executed again
CallInNewProcess ==
    /\ Over /\ run = 1
    /\ prev' = [traj |-> traj, result |-> result, pc |-> pc, gradLog |-> gradLog]
    /\ run' = 2
    /\ fresh' = TRUE
    /\ rs' = RandomState0
    /\ Enter(init_params)
    /\ UNCHANGED args

OptNext == Gradient \/ Callback \/ Update \/ Return \/ CallAgain \/ CallInNewProcess

Init == OptInit /\ FIdle /\ EncIdle /\ BasicIdle

Next == OptNext /\ UNCHANGED <<encVars, fVars, basicVars>>

Spec == Init /\ [][Next]_vars

--------------------------------------------------------------------------
(* Properties of optimize. *)

updates == Len(traj) - 1

\* C3 (as claimed): optimize never aborts, and when it returns it has made
\* exactly max_iter updates and returns the unpacked last parameter vector.
ExactlyMaxIterUpdates ==
    /\ pc # "aborted"
    /\ pc = "done" => updates = max_iter /\ result = unpack_params(traj[Len(traj)])

\* C8 (as claimed): the generator is drawn from once per iteration: the
\* gradient of iteration t uses the t-th batch after the first one, and after
\* i whole iterations i batches are gone.
NoiseOncePerIteration ==
    /\ \A t \in DOMAIN gradLog : gradLog[t].pos = gradLog[1].pos + (t - 1)
    /\ (pc = AdamOrder[1] /\ gradLog # <<>>) => rs = gradLog[1].pos + adam_i

SecondRunIdentical ==
    (run = 2 /\ Over) => traj = prev.traj /\ result = prev.result /\ pc = prev.pc

\* C7 (amended): an invocation made in a new process, where the module's
\* generator starts from RandomState(0) again, repeats the trajectory and the
\* result of the first invocation with the same arguments.
FreshRunIdentical ==
    (run = 2 /\ fresh /\ Over) =>
        traj = prev.traj /\ result = prev.result /\ pc = prev.pc

\* C7 witness: a fresh second invocation has returned after two updates that
\* moved the parameters.
FreshRunIdenticalWitness ==
    /\ run = 2 /\ fresh /\ pc = "done" /\ max_iter >= 2
    /\ traj[2] # traj[1] /\ traj[3] # traj[2]
    /\ traj = prev.traj

--------------------------------------------------------------------------
(* learning_basic_flow.py *)

BMaxD == 2
BMaxK == 2
BMaxN == 2
BMaxIter == 3

\* A float is <<v>>, or <<>> when it is nan or infinite.
NaN == <<>>
Fin(val) == <<val>>
IsFin(o) == o # <<>>
AllFin(f) == \A j \in DOMAIN f : IsFin(f[j])

Size(f) == Cardinality(DOMAIN f)

Min(a, b) == IF a < b THEN a ELSE b

\* params[lo:hi], for 0 <= lo: the slice is cut at the end of the vector
Slice(params, lo, hi) ==
    LET from == Min(lo, Size(params))
        to   == Min(hi, Size(params))
    IN  Arr([j \in Rng(to - from) |-> params[from + j]])

\* params[-K:]: the last K entries, and the whole vector when K = 0
LastK(params, K) ==
    IF K = 0 \/ K > Size(params) THEN params
    ELSE Slice(params, Size(params) - K, Size(params))

\* gradient_create.unpack_params; .reshape(K, dim_z) raises ValueError unless
\* the slice has K * dim_z entries
unpack_params_basic(params, D, K) ==
    LET Wflat == Slice(params, 2 * D, 2 * D + K * D)
        Uflat == Slice(params, 2 * D + K * D, 2 * D + 2 * K * D)
    IN  IF Size(Wflat) # K * D \/ Size(Uflat) # K * D
        THEN [status |-> "ValueError"]
        ELSE [status |-> "ok",
              mu0 |-> Slice(params, 0, D),
              lsd |-> Slice(params, D, 2 * D),
              W   |-> Arr([k \in Rng(K) |-> Arr([d \in Rng(D) |-> Wflat[k * D + d]])]),
              U   |-> Arr([k \in Rng(K) |-> Arr([d \in Rng(D) |-> Uflat[k * D + d]])]),
              b   |-> LastK(params, K)]

\* np.concatenate of two 1-d arrays
Concat(f, h) ==
    Arr([j \in Rng(Size(f) + Size(h)) |-> IF j < Size(f) THEN f[j] ELSE h[j - Size(f)]])

\* W.flatten() of a (K, D) array
Flatten(A, K, D) == Arr([j \in Rng(K * D) |-> A[j \div D][j % D]])

\* np.concatenate((mu0, log_sigma_diag0, W.flatten(), U.flatten(), b))
Pack(up, D, K) ==
    Concat(Concat(Concat(Concat(up.mu0, up.lsd), Flatten(up.W, K, D)),
                  Flatten(up.U, K, D)), up.b)

\* the length of a parameter vector that is consistent with (dim_z, K)
ExpectedLen(D, K) == 2 * D + 2 * K * D + K

\* optimize: init_params, with init_W = init_U = np.array([[-2., 0.]])
init_params_basic(D, K) ==
    LET zD == Arr([d \in Rng(D) |-> Fin(0)])
        wu == Arr([j \in Rng(2) |-> IF j = 0 THEN Fin(-2) ELSE Fin(0)])
        zK == Arr([k \in Rng(K) |-> Fin(0)])
    IN  Concat(Concat(Concat(Concat(zD, zD), wu), wu), zK)

\* flows.planar_flow with one (w, u, b) for the whole batch
planar_flow_basic(z, w, u, b, N, D) ==
    Arr([n \in Rng(N) |-> Arr([d \in Rng(D) |->
        z[n][d] + u[d] * Tanh(Sum([e \in Rng(D) |-> z[n][e] * w[e]]) + b)])])

\* np.dot(U[k], logdet_jac(W[k], zk.T, b[k])) with
\* logdet_jac(w, z, b) = np.outer(w.T, hprime(np.matmul(w, z) + b)), per sample
dot_logdet_jac_basic(u, w, z, b, N, D) ==
    Arr([n \in Rng(N) |->
        Sum([d \in Rng(D) |->
            u[d] * w[d] * hprime(Sum([e \in Rng(D) |-> w[e] * z[n][e]]) + b)])])

\* the true flow: w_test = [[-5.]], u_test = [[-2.]], b_test = [0]
w_test == -5
u_test == -2
b_test == 0

\* logp(zk.T) for dim_z = 1 (np.matmul(w_test, z) needs z of shape (1, N)):
\* logq0(z) - np.log(np.abs(1 + np.dot(u_test, logdet_jac(w_test, z, b_test))))
logp_basic(zk, N, D) ==
    [n \in Rng(N) |->
        ((0 - D * Log2Pi) \div 2 - Sum([d \in Rng(D) |-> zk[n][d] * zk[n][d]]) \div 2)
        - Ln(EpsInv * Abs(1 + u_test * w_test * hprime(w_test * zk[n][0] + b_test)))]

\* the body of F's loop: running_sum += np.log(1 + np.dot(...)); zk = planar_flow(...)
LoopBodyBasic(k, st, W, U, b, N, D) ==
    LET arg == Arr([n \in Rng(N) |-> 1 + dot_logdet_jac_basic(U[k], W[k], st.zk, b[k], N, D)[n]])
        fin == \A n \in Rng(N) : arg[n] > 0
    IN  [zk          |-> planar_flow_basic(st.zk, W[k], U[k], b[k], N, D),
         finite      |-> st.finite /\ fin,
         running_sum |-> IF st.finite /\ fin
                         THEN Arr([n \in Rng(N) |-> st.running_sum[n] + Ln(EpsInv * arg[n])])
                         ELSE st.running_sum]

RECURSIVE LoopBasic(_, _, _, _, _, _, _, _)
LoopBasic(k, K, st, W, U, b, N, D) ==
    IF k >= K THEN st
    ELSE LoopBasic(k + 1, K, LoopBodyBasic(k, st, W, U, b, N, D), W, U, b, N, D)

\* F(z0, mu0, log_sigma_diag0, W, U, b, logq0, dim_z, num_samples, K, t), on
\* finite arguments; logq0 takes D = z.shape[0]
F_basic(z0, W, U, b, N, D, K) ==
    LET st == LoopBasic(0, K, [zk |-> z0, finite |-> TRUE,
                               running_sum |-> Arr([n \in Rng(N) |-> 0])], W, U, b, N, D)
        first == Mean([d \in Rng(D) |->
                    (0 - N * Log2Pi) \div 2 - Sum([n \in Rng(N) |-> z0[n][d] * z0[n][d]]) \div 2])
    IN  IF D # 1 THEN [status |-> "ValueError"]
        ELSE IF ~st.finite THEN [status |-> "ok", value |-> NaN]
        ELSE [status |-> "ok",
              value |-> Fin(first - Mean(logp_basic(st.zk, N, D)) - Mean(st.running_sum))]

Neg(o) == IF IsFin(o) THEN Fin(0 - o[1]) ELSE NaN

Vals(f) == Arr([j \in DOMAIN f |-> f[j][1]])

\* variational_objective(params, t), the generator having given `pos` batches
variational_objective_basic(params, t, pos, N, D, K) ==
    LET up == unpack_params_basic(params, D, K)
    IN  IF up.status # "ok" THEN [status |-> "ValueError", unpacked |-> up]
        ELSE IF ~(AllFin(up.mu0) /\ AllFin(up.lsd) /\ AllFin(up.b)
                  /\ \A k \in Rng(K) : AllFin(up.W[k]) /\ AllFin(up.U[k]))
        THEN [status |-> "ok", unpacked |-> up, free_energy |-> NaN, objective |-> NaN]
        ELSE LET noise == randn(pos * N * D, N, D)
                 z0 == Arr([n \in Rng(N) |-> Arr([d \in Rng(D) |->
                           noise[n][d] * Sqrt(Exp(up.lsd[d][1])) + up.mu0[d][1]])])
                 fe == F_basic(z0, [k \in Rng(K) |-> Vals(up.W[k])],
                               [k \in Rng(K) |-> Vals(up.U[k])], Vals(up.b), N, D, K)
             IN  IF fe.status # "ok" THEN [status |-> "ValueError", unpacked |-> up]
                 ELSE [status |-> "ok", unpacked |-> up, free_energy |-> fe.value,
                       objective |-> Neg(fe.value)]

Shift(params, j, by) ==
    [params EXCEPT ![j] = IF IsFin(@) THEN Fin(@[1] + by) ELSE NaN]

\* grad(variational_objective): the central difference in each coordinate
gradient_basic(params, t, pos, N, D, K) ==
    Arr([j \in DOMAIN params |->
        LET up == variational_objective_basic(Shift(params, j, 1), t, pos, N, D, K).objective
            dn == variational_objective_basic(Shift(params, j, -1), t, pos, N, D, K).objective
        IN  IF IsFin(up) /\ IsFin(dn) THEN Fin((up[1] - dn[1]) \div 2) ELSE NaN])

BInit ==
    /\ dim_z \in 1 .. BMaxD
    /\ num_layers \in 1 .. BMaxK
    /\ num_samples \in 1 .. BMaxN
    /\ b_max_iter \in 0 .. BMaxIter
    /\ b_rs = RandomState0
    /\ b_x = init_params_basic(dim_z, num_layers)
    /\ b_m = Arr([j \in DOMAIN b_x |-> Fin(0)])
    /\ b_v = Arr([j \in DOMAIN b_x |-> Fin(0)])
    /\ b_i = 0
    /\ b_g = Arr([j \in DOMAIN b_x |-> Fin(0)])
    /\ b_eval = <<>>
    /\ b_updates = 0
    /\ b_result = <<>>
    /\ bpc = "gradient"

bArgs == <<dim_z, num_layers, num_samples, b_max_iter>>

\* g = grad(x, i)
BGradient ==
    /\ bpc = "gradient" /\ b_i < b_max_iter
    /\ b_eval' = variational_objective_basic(b_x, b_i, b_rs, num_samples, dim_z, num_layers)
    /\ IF b_eval'.status = "ok"
       THEN /\ b_g' = gradient_basic(b_x, b_i, b_rs, num_samples, dim_z, num_layers)
            /\ b_rs' = b_rs + 1
            /\ bpc' = "callback"
       ELSE /\ bpc' = "aborted"
            /\ UNCHANGED <<b_g, b_rs>>
    /\ UNCHANGED <<bArgs, b_x, b_m, b_v, b_i, b_updates, b_result>>

\* callback(params, t, g): pbar.update()
BCallback ==
    /\ bpc = "callback"
    /\ bpc' = "update"
    /\ UNCHANGED <<bArgs, b_rs, b_x, b_m, b_v, b_i, b_g, b_eval, b_updates, b_result>>

\* the moment estimates and the parameter vector are updated (step_size = 1)
BUpdate ==
    /\ bpc = "update"
    /\ b_m' = Arr([j \in DOMAIN b_x |->
                IF IsFin(b_m[j]) /\ IsFin(b_g[j]) THEN Fin(AdamM1(b_m[j][1], b_g[j][1])) ELSE NaN])
    /\ b_v' = Arr([j \in DOMAIN b_x |->
                IF IsFin(b_v[j]) /\ IsFin(b_g[j]) THEN Fin(AdamV1(b_v[j][1], b_g[j][1])) ELSE NaN])
    /\ b_x' = Arr([j \in DOMAIN b_x |->
                IF IsFin(b_x[j]) /\ IsFin(b_m'[j]) /\ IsFin(b_v'[j])
                THEN Fin(AdamX1(b_x[j][1], b_m'[j][1], b_v'[j][1], b_i, 1)) ELSE NaN])
    /\ b_i' = b_i + 1
    /\ b_updates' = b_updates + 1
    /\ bpc' = "gradient"
    /\ UNCHANGED <<bArgs, b_rs, b_g, b_eval, b_result>>

\* pbar.close(); return unpack_params(variational_params)
BReturn ==
    /\ bpc = "gradient" /\ b_i >= b_max_iter
    /\ b_result' = unpack_params_basic(b_x, dim_z, num_layers)
    /\ bpc' = IF b_result'.status = "ok" THEN "done" ELSE "aborted"
    /\ UNCHANGED <<bArgs, b_rs, b_x, b_m, b_v, b_i, b_g, b_eval, b_updates>>

BNext == BGradient \/ BCallback \/ BUpdate \/ BReturn

InitBasic == BInit /\ EncIdle /\ FIdle /\ OptIdle

NextBasic == BNext /\ UNCHANGED <<encVars, fVars, optVars>>

SpecBasic == InitBasic /\ [][NextBasic]_vars

\* C4 (as claimed): the value variational_objective hands to grad is the free
\* energy F computed, with its sign.
ObjectiveIsFreeEnergy ==
    (b_eval # <<>> /\ b_eval.status = "ok") => b_eval.objective = b_eval.free_energy

\* C5 (as claimed): whatever unpack_params accepted, the initial vector
\* included, is what packing its components gives back.
PackUnpackIdentity ==
    /\ (bpc \in {"callback", "update"} /\ b_eval.unpacked.status = "ok") =>
           Pack(b_eval.unpacked, dim_z, num_layers) = b_x
    /\ (b_result # <<>> /\ b_result.status = "ok") =>
           Pack(b_result, dim_z, num_layers) = b_x

\* C6 (as claimed): a parameter vector whose length does not fit (dim_z, K)
\* stops the run before any gradient is computed and before any update.
MismatchAbortsEarly ==
    Size(b_x) # ExpectedLen(dim_z, num_layers) =>
        /\ bpc \in {"gradient", "aborted"}
        /\ b_eval = <<>> \/ b_eval.status # "ok"
        /\ b_updates = 0
        /\ b_result = <<>> \/ b_result.status # "ok"

=============================================================================




